---- MODULE Spec2Model ----
(***************************************************************************)
(* Order-intake pipeline of assistmeaipms (src/main.py, src/model.py).     *)
(*                                                                         *)
(* One request is followed from the POST handler through the four graph    *)
(* nodes categorize_order -> create_order -> validate_order ->             *)
(* create_response.  The two language-model chains are external            *)
(* capabilities: each call either fails or returns a value drawn from a    *)
(* bounded set.                                                            *)
(*                                                                         *)
(* Encoding of Python values:                                              *)
(*   Optional[T]    None is <<>>, a present value x is <<x>>               *)
(*   identifier str a tuple of one-character strings                       *)
(*   free text      the record [text |-> s]                                *)
(*   JSON text      the record [json |-> object]                           *)
(*   float          [fin |-> n] for a finite n, [inf |-> TRUE] for +inf    *)
(***************************************************************************)
EXTENDS Integers, Sequences, FiniteSets, TLC

VARIABLES
    pc,                     \* position of the request in the handler / graph
    request,                \* the message_list as the caller submitted it
    conversation_messages,  \* state channel "conversation_messages"
    messages,               \* state channel "messages"
    order_initiation,       \* state channel "order_initiation" (Optional[AiAnalysis])
    extracted,              \* what the extraction chain returned (res[0]), as returned
    stages,                 \* graph nodes entered so far, in order
    extractCalls,           \* invocations of the extraction chain
    clarifyCalls,           \* invocations of the clarification chain
    clarifyArgs,            \* input of the last clarification call (Optional)
    response                \* what the handler returned to the caller (Optional)

vars == <<pc, request, conversation_messages, messages, order_initiation,
          extracted, stages, extractCalls, clarifyCalls, clarifyArgs, response>>

None == <<>>
Some(x) == <<x>>
Text(s) == [text |-> s]

----------------------------------------------------------------------------
(* Bounds of the model *)

\* longest conversation history a request carries
MaxHist == 2

\* how many times in a row the validator is applied in SpecValidator
MaxRuns == 2

----------------------------------------------------------------------------
(* src/model.py: enumerations and the regular expressions' numbers *)

OrderType == {"BUY", "SELL"}
OrderClass == {"N"}

IntervenantLen == 7
SecurityHeadLen == 6
SecurityTailLen == 3

\* the character class [\da-zA-Z], on the characters the model uses
IsAlnum(c) == c \in {"A", "B", "C", "1", "2", "3", "4", "5", "6", "7", "8", "9"}

\* Python's "$" (no MULTILINE flag): the end of the string, or just before a
\* newline that is the string's last character
AtDollar(s, i) == i = Len(s) + 1 \/ (i = Len(s) /\ s[i] = "\n")

\* re.match(r'^[\da-zA-Z]{7}$', s)
MatchIntervenant(s) ==
    /\ Len(s) >= IntervenantLen
    /\ \A i \in 1..IntervenantLen : IsAlnum(s[i])
    /\ AtDollar(s, IntervenantLen + 1)

\* re.match(r"^[\da-zA-Z]{6}\.[\da-zA-Z]{3}$", s)
MatchSecurity(s) ==
    /\ Len(s) >= SecurityHeadLen + 1 + SecurityTailLen
    /\ \A i \in 1..SecurityHeadLen : IsAlnum(s[i])
    /\ s[SecurityHeadLen + 1] = "."
    /\ \A i \in 1..SecurityTailLen : IsAlnum(s[SecurityHeadLen + 1 + i])
    /\ AtDollar(s, SecurityHeadLen + SecurityTailLen + 2)

----------------------------------------------------------------------------
(* src/model.py: floats, field validators, the two order classes *)

Fin(n) == [fin |-> n]
Inf == [inf |-> TRUE]

\* Python's  q <= 0  on a float: false for +inf
LeZero(q) == IF "fin" \in DOMAIN q THEN q.fin <= 0 ELSE FALSE

\* a call's outcome: the value it returns, or an exception
Return(v) == [ret |-> v]
Raise == [err |-> TRUE]
Raised(r) == "err" \in DOMAIN r

\* @field_validator('intervenant')
validate_intervenant(intervenant) ==
    IF intervenant = <<>> \/ ~MatchIntervenant(intervenant)
    THEN Raise
    ELSE Return(Some(intervenant))

\* validate_security without its last line: the function returns nothing and
\* the field becomes None
validate_security_no_return(security_id) ==
    IF security_id = <<>> \/ ~MatchSecurity(security_id)
    THEN Raise
    ELSE Return(None)

\* @field_validator('security_id')
validate_security(security_id) ==
    IF security_id = <<>> \/ ~MatchSecurity(security_id)
    THEN Raise
    ELSE Return(Some(security_id))

\* validate_quantity without its last line
validate_quantity_no_return(quantity) ==
    IF LeZero(quantity) THEN Raise ELSE Return(None)

\* @field_validator('quantity')
validate_quantity(quantity) ==
    IF LeZero(quantity) THEN Raise ELSE Return(Some(quantity))

\* a required field with no validator of its own (orderType, orderClass)
Plain(v) == Return(Some(v))

\* OrderInitiation.model_dump(): the fields by name, whatever the class
model_dump(o) ==
    [order_confirmed |-> o.order_confirmed,
     intervenant     |-> o.intervenant,
     security_id     |-> o.security_id,
     orderType       |-> o.orderType,
     quantity        |-> o.quantity,
     orderClass      |-> o.orderClass]

FieldNames == {"intervenant", "security_id", "orderType", "quantity", "orderClass"}

\* the per-field outcome of EnhancedOrderInitiation(**d). Every field is
\* required (non-Optional): None is a type error and the field's own validator
\* does not run; otherwise the validator decides, and what it returns becomes
\* the field's value
EnhancedFields(d) ==
    [intervenant |-> IF d.intervenant = None THEN Raise
                     ELSE validate_intervenant(d.intervenant[1]),
     security_id |-> IF d.security_id = None THEN Raise
                     ELSE validate_security(d.security_id[1]),
     orderType   |-> IF d.orderType = None THEN Raise ELSE Plain(d.orderType[1]),
     quantity    |-> IF d.quantity = None THEN Raise
                     ELSE validate_quantity(d.quantity[1]),
     orderClass  |-> IF d.orderClass = None THEN Raise ELSE Plain(d.orderClass[1])]

\* EnhancedOrderInitiation(**d): every field is validated and every failing
\* field is reported in the ValidationError; with none, the object is built
\* from the values the validators returned
EnhancedOrderInitiation(d) ==
    LET r == EnhancedFields(d)
        bad == {f \in FieldNames : Raised(r[f])}
    IN  IF bad # {}
        THEN [errors |-> bad]
        ELSE [obj |-> [cls             |-> "EnhancedOrderInitiation",
                       order_confirmed |-> d.order_confirmed,
                       intervenant     |-> r.intervenant.ret,
                       security_id     |-> r.security_id.ret,
                       orderType       |-> r.orderType.ret,
                       quantity        |-> r.quantity.ret,
                       orderClass      |-> r.orderClass.ret]]

----------------------------------------------------------------------------
(* model_dump_json(): the JSON document of an order *)

JNull == [null |-> TRUE]
JStr(s) == [str |-> s]
JNum(n) == [num |-> n]
JBool(b) == [bool |-> b]

\* a float in JSON: infinity and NaN have no JSON number and are written null
SerFloat(q) == IF "fin" \in DOMAIN q THEN JNum(q.fin) ELSE JNull

\* an Optional[str] or Optional[enum] field in JSON
SerStr(opt) == IF opt = None THEN JNull ELSE JStr(opt[1])

\* the Optional[float] field in JSON
SerQuantity(opt) == IF opt = None THEN JNull ELSE SerFloat(opt[1])

model_dump_json(o) ==
    [json |-> [order_confirmed |-> JBool(o.order_confirmed),
               intervenant     |-> SerStr(o.intervenant),
               security_id     |-> SerStr(o.security_id),
               orderType       |-> SerStr(o.orderType),
               quantity        |-> SerQuantity(o.quantity),
               orderClass      |-> SerStr(o.orderClass)]]

----------------------------------------------------------------------------
(* Inputs: what a caller can post, what the two capabilities can return *)

DataTypes == {"Human", "System", "AI"}
PayloadTypes == {"FinancialPosition", "OrderInitiation"}

\* (payload_type, payload) of a posted message: both absent, both present,
\* and the two mismatches
PayloadShapes ==
    {<<None, None>>,
     <<Some("OrderInitiation"), Some(Text("p"))>>,
     <<None, Some(Text("p"))>>,
     <<Some("OrderInitiation"), None>>}

\* the messages a caller posts: Human and AI turns of every payload shape, a
\* plain System turn, and one message whose data_type is no ConversationMessage's
PostedMessages ==
    {[data_type |-> t, data |-> Text("d"), payload_type |-> s[1], payload |-> s[2]]
        : t \in {"Human", "AI"}, s \in PayloadShapes}
    \cup {[data_type |-> t, data |-> Text("d"), payload_type |-> None, payload |-> None]
        : t \in {"System", "Tool"}}

RECURSIVE SeqsUpTo(_, _)
SeqsUpTo(S, n) ==
    IF n = 0 THEN {<<>>}
    ELSE LET shorter == SeqsUpTo(S, n - 1)
         IN  shorter \cup {Append(h, m) : h \in {x \in shorter : Len(x) = n - 1}, m \in S}

Histories == SeqsUpTo(PostedMessages, MaxHist)

Intervenants ==
    {None,
     Some(<<"A", "B", "1", "2", "3", "4", "5">>),
     Some(<<"A", "B", "1", "2", "3", "4">>),
     Some(<<"A", "B", "1", "2", "3", "4", "5", "\n">>)}

Securities ==
    {None,
     Some(<<"1", "2", "3", "4", "5", "6", ".", "A", "B", "C">>),
     Some(<<"1", "2", ".", "3", "4", "5">>)}

Quantities == {None, Some(Fin(-5)), Some(Fin(0)), Some(Fin(100)), Some(Inf)}

\* every OrderInitiation the extraction chain can hand back
Drafts ==
    [cls             : {"OrderInitiation"},
     order_confirmed : BOOLEAN,
     intervenant     : Intervenants,
     security_id     : Securities,
     orderType       : {None} \cup {Some(t) : t \in OrderType},
     quantity        : Quantities,
     orderClass      : {None} \cup {Some(c) : c \in OrderClass}]

\* the extraction chain: no candidate (None) or one AiAnalysis
ExtractOutcomes ==
    {None} \cup {Some([orderInitiation |-> d, comment |-> Text("ack")]) : d \in Drafts}

\* the clarification chain: a failure (None) or the text of its message
ClarifyText == Text("clarification")
ClarifyOutcomes == {None, Some(ClarifyText)}

----------------------------------------------------------------------------
(* src/main.py: the four graph nodes as functions of the state they read *)

\* starlette.config.undefined: a sentinel no payload is ever identical to
undefined == <<[undefined |-> TRUE]>>

\* AIMessage(content=...): content must be text; None is refused
AIMessage(content) ==
    IF content = None THEN Raise ELSE Return([type |-> "ai", content |-> content[1]])

\* one turn of the loop of categorize_order
Emitted(message) ==
    (IF message.data_type = "AI" /\ message.payload # undefined
     THEN <<AIMessage(message.payload)>>
     ELSE <<>>)
    \o <<AIMessage(Some(message.data))>>

RECURSIVE Concat(_)
Concat(ss) == IF ss = <<>> THEN <<>> ELSE Head(ss) \o Concat(Tail(ss))

categorize_order(conv) ==
    LET built == Concat([i \in 1..Len(conv) |-> Emitted(conv[i])])
    IN  IF \E i \in 1..Len(built) : Raised(built[i])
        THEN Raise
        ELSE Return([i \in 1..Len(built) |-> built[i].ret])

\* validate_order on the AiAnalysis `order`; `clar` is what the clarification
\* chain answers if it is asked. On success the function assigns the
\* EnhancedOrderInitiation to the AiAnalysis the state holds and returns
\* nothing; on a ValidationError it asks for one clarification, about str(e)
\* (the failing fields) and the comment so far, and replaces the comment
validate_order(order, clar) ==
    LET e == EnhancedOrderInitiation(model_dump(order.orderInitiation))
    IN  IF "obj" \in DOMAIN e
        THEN [order |-> [order EXCEPT !.orderInitiation = e.obj],
              asked |-> None]
        ELSE LET asked == Some([validation_errors |-> e.errors,
                                initial_message   |-> order.comment])
             IN  IF clar = None
                 THEN [err |-> TRUE, asked |-> asked]
                 ELSE [order |-> [order EXCEPT !.comment = clar[1]],
                       asked |-> asked]

\* create_response: the new turn, and the history it returns
NewTurn(order) ==
    [data_type    |-> "AI",
     data         |-> order.comment,
     payload_type |-> Some("OrderInitiation"),
     payload      |-> Some(model_dump_json(order.orderInitiation))]

\* create_response with the operands of + exchanged
create_response_prepending(conv, order) == <<NewTurn(order)>> \o conv

create_response(conv, order) == conv \o <<NewTurn(order)>>

\* the graph with create_order wired straight to create_response
NextNode_skipping_validation(node) ==
    CASE node = "START"            -> "categorize_order"
      [] node = "categorize_order" -> "create_order"
      [] node = "create_order"     -> "create_response"
      [] node = "validate_order"   -> "create_response"
      [] node = "create_response"  -> "END"

\* workflow.add_edge(...)
NextNode(node) ==
    CASE node = "START"            -> "categorize_order"
      [] node = "categorize_order" -> "create_order"
      [] node = "create_order"     -> "validate_order"
      [] node = "validate_order"   -> "create_response"
      [] node = "create_response"  -> "END"

\* FastAPI's validation of the body as List[ConversationMessage]
BodyAccepted(message_list) ==
    \A i \in 1..Len(message_list) :
        /\ message_list[i].data_type \in DataTypes
        /\ message_list[i].payload_type \in {None} \cup {Some(t) : t \in PayloadTypes}

----------------------------------------------------------------------------
(* The request as a state machine *)

Init ==
    /\ pc = "request"
    /\ request \in Histories
    /\ conversation_messages = <<>>
    /\ messages = <<>>
    /\ order_initiation = None
    /\ extracted = None
    /\ stages = <<>>
    /\ extractCalls = 0
    /\ clarifyCalls = 0
    /\ clarifyArgs = None
    /\ response = None

\* load_default_values, entry: the body is validated, then graph.invoke(inputs)
Receive ==
    /\ pc = "request"
    /\ IF BodyAccepted(request)
       THEN /\ conversation_messages' = request
            /\ pc' = NextNode("START")
       ELSE /\ conversation_messages' = conversation_messages
            /\ pc' = "rejected"
    /\ UNCHANGED <<request, messages, order_initiation, extracted, stages,
                   extractCalls, clarifyCalls, clarifyArgs, response>>

\* node categorize_order
CategorizeOrder ==
    /\ pc = "categorize_order"
    /\ stages' = Append(stages, "categorize_order")
    /\ LET r == categorize_order(conversation_messages)
       IN  IF Raised(r)
           THEN /\ pc' = "failed"
                /\ messages' = messages
           ELSE /\ pc' = NextNode("categorize_order")
                /\ messages' = r.ret
    /\ UNCHANGED <<request, conversation_messages, order_initiation, extracted,
                   extractCalls, clarifyCalls, clarifyArgs, response>>

\* node create_order: one call of the extraction chain, res[0] is kept
CreateOrder ==
    /\ pc = "create_order"
    /\ stages' = Append(stages, "create_order")
    /\ extractCalls' = extractCalls + 1
    /\ \E res \in ExtractOutcomes :
          IF res = None
          THEN /\ pc' = "failed"
               /\ UNCHANGED <<order_initiation, extracted>>
          ELSE /\ pc' = NextNode("create_order")
               /\ order_initiation' = res
               /\ extracted' = res
    /\ UNCHANGED <<request, conversation_messages, messages, clarifyCalls,
                   clarifyArgs, response>>

\* one run of validate_order, the request going on at `target`
ValidateStep(target) ==
    /\ pc = "validate_order"
    /\ stages' = Append(stages, "validate_order")
    /\ \E clar \in ClarifyOutcomes :
          LET r == validate_order(order_initiation[1], clar)
          IN  /\ clarifyArgs' = IF r.asked = None THEN clarifyArgs ELSE r.asked
              /\ clarifyCalls' = IF r.asked = None THEN clarifyCalls ELSE clarifyCalls + 1
              /\ IF Raised(r)
                 THEN /\ pc' = "failed"
                      /\ order_initiation' = order_initiation
                 ELSE /\ pc' = target
                      /\ order_initiation' = Some(r.order)
    /\ UNCHANGED <<request, conversation_messages, messages, extracted,
                   extractCalls, response>>

\* node validate_order
ValidateOrder == ValidateStep(NextNode("validate_order"))

\* node create_response
CreateResponse ==
    /\ pc = "create_response"
    /\ stages' = Append(stages, "create_response")
    /\ conversation_messages' = create_response(conversation_messages, order_initiation[1])
    /\ pc' = NextNode("create_response")
    /\ UNCHANGED <<request, messages, order_initiation, extracted, extractCalls,
                   clarifyCalls, clarifyArgs, response>>

\* load_default_values, exit: return result["conversation_messages"]
Respond ==
    /\ pc = "END"
    /\ response' = Some(conversation_messages)
    /\ pc' = "done"
    /\ UNCHANGED <<request, conversation_messages, messages, order_initiation,
                   extracted, stages, extractCalls, clarifyCalls, clarifyArgs>>

Next ==
    \/ Receive
    \/ CategorizeOrder
    \/ CreateOrder
    \/ ValidateOrder
    \/ CreateResponse
    \/ Respond

Spec == Init /\ [][Next]_vars

----------------------------------------------------------------------------
(* validate_order alone, applied again and again to what it returned *)

InitValidator ==
    /\ pc = "validate_order"
    /\ request = <<>>
    /\ conversation_messages = <<>>
    /\ messages = <<>>
    /\ order_initiation \in ExtractOutcomes \ {None}
    /\ extracted = order_initiation
    /\ stages = <<>>
    /\ extractCalls = 1
    /\ clarifyCalls = 0
    /\ clarifyArgs = None
    /\ response = None

Revalidate ==
    /\ Len(stages) < MaxRuns
    /\ ValidateStep("validate_order")

SpecValidator == InitValidator /\ [][Revalidate]_vars

----------------------------------------------------------------------------
(* Vocabulary of the properties *)

Pipeline == <<"categorize_order", "create_order", "validate_order", "create_response">>

\* the request got past the Validator / past the Composer
Validated == pc \in {"create_response", "END", "done"}
Composed == pc \in {"END", "done"}

\* the draft and the comment the extraction chain returned
Draft == extracted[1].orderInitiation
DraftComment == extracted[1].comment

\* the order and the comment in the state now
Order == order_initiation[1].orderInitiation
Comment == order_initiation[1].comment

AllAlnum(s, from, to) == \A i \in from..to : IsAlnum(s[i])

\* the validation table, rule by rule, on a draft d
RuleIntervenant(d) ==
    /\ d.intervenant # None
    /\ Len(d.intervenant[1]) = IntervenantLen
    /\ AllAlnum(d.intervenant[1], 1, IntervenantLen)

RuleSecurity(d) ==
    /\ d.security_id # None
    /\ Len(d.security_id[1]) = SecurityHeadLen + 1 + SecurityTailLen
    /\ AllAlnum(d.security_id[1], 1, SecurityHeadLen)
    /\ d.security_id[1][SecurityHeadLen + 1] = "."
    /\ AllAlnum(d.security_id[1], SecurityHeadLen + 2, SecurityHeadLen + 1 + SecurityTailLen)

RuleOrderType(d) == d.orderType # None /\ d.orderType[1] \in {"BUY", "SELL"}

RuleQuantity(d) ==
    /\ d.quantity # None
    /\ ("fin" \in DOMAIN d.quantity[1] => d.quantity[1].fin > 0)

RuleOrderClass(d) == d.orderClass # None /\ d.orderClass[1] \in OrderClass

RuleConfirmed(d) == d.order_confirmed \in BOOLEAN

\* the fields of d that break their rule
ViolatedFields(d) ==
    {f \in FieldNames :
        \/ f = "intervenant" /\ ~RuleIntervenant(d)
        \/ f = "security_id" /\ ~RuleSecurity(d)
        \/ f = "orderType" /\ ~RuleOrderType(d)
        \/ f = "quantity" /\ ~RuleQuantity(d)
        \/ f = "orderClass" /\ ~RuleOrderClass(d)}

SatisfiesTable(d) == ViolatedFields(d) = {} /\ RuleConfirmed(d)

\* payload present if and only if payload_type present
MessageInvariant(m) == (m.payload # None) <=> (m.payload_type # None)

WellFormed(h) == BodyAccepted(h) /\ \A i \in 1..Len(h) : MessageInvariant(h[i])

\* reading a JSON document back into the optional fields of an order
ParseOpt(j) ==
    IF "null" \in DOMAIN j THEN None
    ELSE IF "str" \in DOMAIN j THEN Some(j.str)
    ELSE Some(Fin(j.num))

Deserialize(payload) ==
    [order_confirmed |-> payload.json.order_confirmed.bool,
     intervenant     |-> ParseOpt(payload.json.intervenant),
     security_id     |-> ParseOpt(payload.json.security_id),
     orderType       |-> ParseOpt(payload.json.orderType),
     quantity        |-> ParseOpt(payload.json.quantity),
     orderClass      |-> ParseOpt(payload.json.orderClass)]

LastTurn == conversation_messages[Len(conversation_messages)]

----------------------------------------------------------------------------
(* Properties *)

\* C1: the history only grows, by one turn, in create_response: until then
\* the channel holds the posted history as posted; afterwards it holds the
\* posted history, unchanged and in order, followed by exactly one new turn,
\* and that is what the caller gets.
C1_AppendOnlyHistory ==
    /\ pc \in {"categorize_order", "create_order", "validate_order",
               "create_response", "failed"}
          => conversation_messages = request
    /\ Composed =>
          /\ Len(conversation_messages) = Len(request) + 1
          /\ SubSeq(conversation_messages, 1, Len(request)) = request
    /\ pc = "done" => response = Some(conversation_messages)

C1_Witness == pc = "done" /\ Len(request) >= 1 /\ clarifyCalls = 1

\* C2: a draft that satisfies the whole validation table leaves the Validator
\* as an order with the same value in every field and the extractor's comment,
\* no clarification having been asked; the Composer writes exactly that.
C2_ValidDraftPassesUnchanged ==
    (Validated /\ SatisfiesTable(Draft)) =>
        /\ Order.cls = "EnhancedOrderInitiation"
        /\ model_dump(Order) = model_dump(Draft)
        /\ Comment = DraftComment
        /\ clarifyCalls = 0
        /\ clarifyArgs = None
        /\ Composed =>
              /\ LastTurn.data = DraftComment
              /\ LastTurn.payload = Some(model_dump_json(Draft))

C2_Witness ==
    /\ Composed
    /\ SatisfiesTable(Draft)
    /\ Draft.quantity = Some(Fin(100))
    /\ Draft.order_confirmed

\* C3: a draft that breaks at least one rule makes the Validator ask for one
\* clarification, about every field that breaks its rule and with the prior
\* comment; the draft's fields stay as they were and the comment becomes the
\* clarification text.
C3_EveryViolationClarified ==
    (Len(stages) >= 3 /\ ViolatedFields(Draft) # {}) =>
        /\ clarifyCalls = 1
        /\ clarifyArgs = Some([validation_errors |-> ViolatedFields(Draft),
                               initial_message   |-> DraftComment])
        /\ Validated =>
              /\ Order = Draft
              /\ Comment = ClarifyText

\* C4: the draft is promoted exactly when it satisfies the validation table.
C4_PromotedIffTable ==
    Validated => ((Order.cls = "EnhancedOrderInitiation") <=> SatisfiesTable(Draft))

\* the message sequence the Normalizer's rule describes: per turn, the payload
\* if the turn has one, then the data
TurnByRule(m) ==
    (IF m.payload # None THEN <<[type |-> "ai", content |-> m.payload[1]]>> ELSE <<>>)
    \o <<[type |-> "ai", content |-> m.data]>>

NormalizedByRule(h) == Concat([i \in 1..Len(h) |-> TurnByRule(h[i])])

\* C5: on a well-formed history the Normalizer returns, without error, per
\* turn the payload if and only if the turn has one, followed by the data.
C5_NormalizerRule ==
    (WellFormed(request) /\ Len(stages) >= 1) =>
        /\ ~(pc = "failed" /\ Len(stages) = 1)
        /\ messages = NormalizedByRule(request)

\* C6: the appended turn is an AI turn of payload type OrderInitiation whose
\* data is the Validator's comment and whose payload reads back as the
\* order's field values.
C6_AppendedTurn ==
    Composed =>
        /\ LastTurn.data_type = "AI"
        /\ LastTurn.payload_type = Some("OrderInitiation")
        /\ LastTurn.data = Comment
        /\ (clarifyCalls = 0 => Comment = DraftComment)
        /\ (clarifyCalls = 1 => Comment = ClarifyText)
        /\ LastTurn.payload # None
        /\ Deserialize(LastTurn.payload[1]) = model_dump(Order)

\* C7: on a well-formed history the request fails hard exactly when a
\* capability call failed, nothing is returned then and no capability is
\* called twice; otherwise the caller gets the history with one new turn.
C7_HardFailureIffCapabilityFails ==
    WellFormed(request) =>
        /\ extractCalls <= 1
        /\ clarifyCalls <= 1
        /\ pc = "failed" =>
              /\ response = None
              /\ \/ Len(stages) = 2 /\ extractCalls = 1 /\ extracted = None
                 \/ Len(stages) = 3 /\ clarifyCalls = 1
        /\ pc = "done" => response = Some(request \o <<LastTurn>>)

\* C8: a history with a message that has a payload and no payload_type, or a
\* payload_type and no payload, never enters the pipeline.
C8_MalformedInputRejected ==
    (\E i \in 1..Len(request) : ~MessageInvariant(request[i])) =>
        /\ pc \in {"request", "rejected"}
        /\ stages = <<>>
        /\ extractCalls = 0
        /\ clarifyCalls = 0

\* C9: the stages run in the order Normalizer, Extractor, Validator, Composer,
\* each at most once and each only after the one before it; a request that
\* completes has run all four.
C9_FixedStageOrder ==
    /\ Len(stages) <= Len(Pipeline)
    /\ stages = SubSeq(Pipeline, 1, Len(stages))
    /\ \A k \in 1..Len(Pipeline) : pc = Pipeline[k] => Len(stages) = k - 1
    /\ Composed => stages = Pipeline

C9_Witness == pc = "done" /\ stages = Pipeline

\* C10: validating again what a successful validation returned changes
\* neither the order nor the comment and asks for no clarification.
C10_RevalidationIsNoOp ==
    [][(pc = "validate_order" /\ stages # <<>> /\ clarifyCalls = 0)
          => /\ order_initiation' = order_initiation
             /\ clarifyCalls' = 0
             /\ clarifyArgs' = None
             /\ pc' = "validate_order"]_vars

C10_Witness ==
    /\ Len(stages) >= 2
    /\ clarifyCalls = 0
    /\ Order.cls = "EnhancedOrderInitiation"

====
